---- MODULE Spec2Model ----
(***************************************************************************)
(* Booking lifecycle and dispatch of the UISI shuttle service              *)
(* (src/main.py), over the schema and seed rows of                         *)
(* src/backend/setup_database.py.                                          *)
(*                                                                         *)
(* Every HTTP handler of main.py is an `async def` whose body calls        *)
(* sqlite3 synchronously, so the body of a handler is one atomic step of   *)
(* the event loop up to its first suspending await.  The only await inside *)
(* a database transaction is create_booking's manager.send_to_driver       *)
(* (line 418), taken after every write of the handler.  A handler's writes *)
(* become visible at its commit, and a handler that raises before its      *)
(* commit leaves nothing behind: get_db closes the connection, which rolls *)
(* the open transaction back.  Each handler is one action; its last        *)
(* parameter, rc, is the HTTP status code it answers with.                 *)
(***************************************************************************)
EXTENDS Integers, Sequences, FiniteSets, TLC

\* ------------------------------------------------------------------ bounds
MaxBookings == 2        \* bookings rows ever inserted
RespBookings == 1       \* the same, where the answers are recorded
InflightBookings == 1   \* the same, where requests are in flight
RiderBookings == 1      \* the same, where students register themselves
MaxRegistrations == 1   \* students auto-registered by login
MaxInflight == 2        \* driver status requests in flight together
MaxSockets == 2         \* websockets ever connected
MaxSamples == 2         \* location_history rows ever inserted
MaxLocations == 3       \* locations rows ever inserted
PushSockets == 1        \* websockets ever connected, where bookings are pushed
PushSamples == 1        \* location_history rows, where bookings are pushed

\* ------------------------------------------------------- schema and seed
NULL == 0

AdminId == 1
Driver1Id == 2
Driver2Id == 3
StudentId == 4

\* The rows INSERTed by create_database.
SeedUsers ==
    (AdminId :> [role |-> "admin", status |-> "active"]) @@
    (Driver1Id :> [role |-> "driver", status |-> "active"]) @@
    (Driver2Id :> [role |-> "driver", status |-> "active"]) @@
    (StudentId :> [role |-> "pengguna", status |-> "active"])

SeedVehicles ==
    (1 :> [status |-> "available", driver_id |-> Driver1Id]) @@
    (2 :> [status |-> "available", driver_id |-> Driver2Id])

\* Two of the seeded campus stops; every seeded stop is inserted 'active'.
SeedLocations ==
    (1 :> [status |-> "active", name |-> "Pos P13", latitude |-> "-7.1633"]) @@
    (2 :> [status |-> "active", name |-> "PPS", latitude |-> "-7.1645"])

\* (from, to) pairs a BookingRequest may name: two active stops, the same
\* stop twice, and a stop id that is in no row.
RouteInputs == {<<1, 2>>, <<1, 1>>, <<1, 3>>}

\* Status strings a driver may send in BookingStatusUpdate.status: the
\* three the handler knows, and one it does not.
TargetStatuses == {"driver_arriving", "ongoing", "completed", "no_show"}

\* HTTP status codes the handlers answer with (500: an exception that no
\* handler catches, or delete_user_account's own 500).
HttpCodes == {200, 400, 403, 404, 500}

VARIABLES
    users,          \* users table: id -> [role, status]
    sessions,       \* sessions table: the users who have a row
    vehicles,       \* vehicles table: id -> [status, driver_id]
    locations,      \* locations table: id -> [status]
    bookings,       \* bookings table: sequence, id = index
    trips,          \* trips table: sequence, id = index
    notifications,  \* notifications table: set of rows
    audit_log,      \* audit_log table: set of rows
    next_user_id,   \* AUTOINCREMENT counter of users
    resp,           \* the answer of the handler that ran last, where recorded
    inflight,       \* driver status requests sent and not yet answered
    txn,            \* the open transaction of a create_booking in progress
    seen,           \* what the last listing of bookings returned
    location_history,    \* location_history table: sequence of samples
    active_connections,  \* manager.active_connections: list of websockets
    driver_connections,  \* manager.driver_connections: driver id -> websocket
    connect_args,   \* the (user_id, role) each websocket was connected with
    open,           \* the websockets whose peer is still there
    pass,           \* the broadcast in progress, or the last one
    notified        \* what the last send_to_driver did

vars ==
    <<users, sessions, vehicles, locations, bookings, trips, notifications, audit_log,
      next_user_id, resp, inflight, txn, seen, location_history,
      active_connections, driver_connections, connect_args, open, pass,
      notified>>

dbvars ==
    <<users, sessions, vehicles, locations, bookings, trips, notifications, audit_log,
      next_user_id>>

hubvars ==
    <<active_connections, driver_connections, connect_args, open, pass,
      notified>>

BookingIds == DOMAIN bookings
TripIds == DOMAIN trips

\* require_role: the caller's users row has the role and is active.
HasRole(u, role) ==
    /\ u \in DOMAIN users
    /\ users[u].role = role
    /\ users[u].status = "active"

\* What a handler answers: the operation and the HTTP status code.
Response(op, code) == [op |-> op, code |-> code]

NoResp == Response("none", 0)

\* No create_booking is between its INSERT and its commit.
NoTxn == [state |-> "none"]

\* No listing has been asked for yet.
NotListed == [during |-> "none", rows |-> {}]

\* No broadcast has been started yet.
NoPass ==
    [state |-> "idle", snapshot |-> {}, todo |-> <<>>, got |-> {}, failed |-> {}]

\* No send_to_driver has been called yet.
NotNotified == [driver |-> NULL, to |-> {}, raised |-> FALSE]

\* ConnectionManager.__init__: no connection, no driver indexed.
HubInit ==
    /\ active_connections = <<>>
    /\ driver_connections = <<>>
    /\ connect_args = <<>>
    /\ open = {}
    /\ pass = NoPass
    /\ notified = NotNotified

\* The fleet when the service starts.  No handler of main.py writes a
\* vehicles row: the fleet is as seeded, or as the operator has left it
\* after taking seeded vehicles out of service.
Maintenance(fleet, out) ==
    [v \in DOMAIN fleet |->
        IF v \in out THEN [fleet[v] EXCEPT !.status = "maintenance"] ELSE fleet[v]]

InitFleets ==
    {Maintenance(SeedVehicles, {}), Maintenance(SeedVehicles, {2}),
     Maintenance(SeedVehicles, {1, 2})}

Init ==
    /\ users = SeedUsers
    /\ sessions = {}
    /\ vehicles \in InitFleets
    /\ locations = SeedLocations
    /\ bookings = <<>>
    /\ trips = <<>>
    /\ notifications = {}
    /\ audit_log = {}
    /\ next_user_id = StudentId + 1
    /\ resp = NoResp
    /\ inflight = [i \in 1..MaxInflight |-> [state |-> "free"]]
    /\ txn = NoTxn
    /\ seen = NotListed
    /\ location_history = <<>>
    /\ HubInit

AuditRow(user_id, action, entity_type, entity_id) ==
    [user_id |-> user_id, action |-> action, entity_type |-> entity_type,
     entity_id |-> entity_id]

\* log_audit: one more audit_log row (and a commit of the connection).
log_audit(user_id, action, entity_type, entity_id) ==
    audit_log' = audit_log \cup {AuditRow(user_id, action, entity_type, entity_id)}

\* ------------------------------------------------------------ login
\* The auto-register branch of login: an unknown @student.uisi.ac.id
\* address gets a users row with role pengguna, and two audit rows.
login_register(rc) ==
    /\ rc = 200
    /\ users' = users @@
           (next_user_id :> [role |-> "pengguna", status |-> "active"])
    /\ next_user_id' = next_user_id + 1
    /\ sessions' = sessions \cup {next_user_id}
    /\ audit_log' = audit_log \cup
           {AuditRow(next_user_id, "register", "user", next_user_id),
            AuditRow(next_user_id, "login", "user", next_user_id)}
    /\ UNCHANGED <<vehicles, locations, bookings, trips, notifications>>

\* The branch of login for an address that has a users row, where the
\* account is active and the password, if one is needed, is right: a
\* sessions row and an audit row.
login(u, rc) ==
    /\ u \in DOMAIN users
    /\ users[u].status = "active"
    /\ rc = 200
    /\ sessions' = sessions \cup {u}
    /\ log_audit(u, "login", "user", u)
    /\ UNCHANGED <<users, vehicles, locations, bookings, trips, notifications,
                   next_user_id>>

\* ------------------------------------------------------ create_booking
\* A location check that does not look at the status.
ExistingRows(f, t) == {l \in {f, t} : l \in DOMAIN locations}

\* A location check that counts one row for each of its two arguments.
RowPerArgument(f, t) ==
    {p \in {<<"from", f>>, <<"to", t>>} :
        p[2] \in DOMAIN locations /\ locations[p[2]].status = "active"}

\* The rows of the location check: ids among (from, to) that are active.
\* WHERE id IN (?, ?) has one row for an id that is given twice.
ActiveRows(f, t) ==
    {l \in {f, t} : l \in DOMAIN locations /\ locations[l].status = "active"}

\* A query that does not look at the vehicle's status.
OwnedPairs ==
    {p \in (DOMAIN users) \X (DOMAIN vehicles) :
        /\ vehicles[p[2]].driver_id = p[1]
        /\ users[p[1]].role = "driver"
        /\ users[p[1]].status = "active"}

\* The auto-assign query: drivers joined with their vehicles.
EligiblePairs ==
    {p \in (DOMAIN users) \X (DOMAIN vehicles) :
        /\ vehicles[p[2]].driver_id = p[1]
        /\ users[p[1]].role = "driver"
        /\ users[p[1]].status = "active"
        /\ vehicles[p[2]].status = "available"}

\* A bookings table with no constraint on booking_code.
NeverTaken(code) == FALSE

\* booking_code is UNIQUE.
CodeTaken(code) == \E b \in BookingIds : bookings[b].booking_code = code

\* The row as INSERTed: status takes its column default, 'pending'.
NewBooking(code, u, f, t) ==
    [booking_code |-> code, user_id |-> u, from_location_id |-> f,
     to_location_id |-> t, status |-> "pending", driver_id |-> NULL,
     vehicle_id |-> NULL, cancelled_at |-> FALSE, cancelled_by |-> NULL,
     cancellation_reason |-> ""]

\* UPDATE bookings SET driver_id, vehicle_id, status = 'accepted'
Assign(row, d, v) ==
    [row EXCEPT !.driver_id = d, !.vehicle_id = v, !.status = "accepted"]

\* An assignment that marks the vehicle, with nothing that releases it.
VehiclesMarkedInUse(v) == [vehicles EXCEPT ![v].status = "in_use"]

\* The vehicles table after the assignment: lines 405-414 write the
\* bookings row and a notifications row, and no vehicles row.
VehiclesAfterAssign(v) == vehicles

create_booking(u, f, t, code, rc) ==
    /\ HasRole(u, "pengguna")
    /\ UNCHANGED <<users, sessions, locations, trips, next_user_id>>
    /\ \/ \* an id is missing or not active
          /\ rc = 404
          /\ Cardinality(ActiveRows(f, t)) # 2
          /\ UNCHANGED <<vehicles, bookings, notifications, audit_log>>
       \/ \* booking_code UNIQUE fails: the INSERT raises, nothing is kept
          /\ rc = 500
          /\ Cardinality(ActiveRows(f, t)) = 2
          /\ CodeTaken(code)
          /\ UNCHANGED <<vehicles, bookings, notifications, audit_log>>
       \/ \* the query has no row: the booking stays pending
          /\ rc = 200
          /\ Cardinality(ActiveRows(f, t)) = 2
          /\ ~CodeTaken(code)
          /\ EligiblePairs = {}
          /\ bookings' = Append(bookings, NewBooking(code, u, f, t))
          /\ log_audit(u, "create", "booking", Len(bookings) + 1)
          /\ UNCHANGED <<vehicles, notifications>>
       \/ \* LIMIT 1 with no ORDER BY: any row of the query
          /\ rc = 200
          /\ Cardinality(ActiveRows(f, t)) = 2
          /\ ~CodeTaken(code)
          /\ \E p \in EligiblePairs :
                /\ bookings' =
                      Append(bookings, Assign(NewBooking(code, u, f, t), p[1], p[2]))
                /\ vehicles' = VehiclesAfterAssign(p[2])
                /\ notifications' = notifications \cup
                      {[user_id |-> p[1], booking_code |-> code]}
          /\ log_audit(u, "create", "booking", Len(bookings) + 1)

\* ------------------------------------------------------ cancel_booking
\* A cancellation that writes the status alone.
CancelStatusOnly(row, u) == [row EXCEPT !.status = "cancelled"]

\* A cancellation that takes the driver and the vehicle off the booking.
CancelAndUnassign(row, u) ==
    [row EXCEPT !.status = "cancelled", !.cancelled_at = TRUE,
                !.cancelled_by = u,
                !.cancellation_reason = "Cancelled by user",
                !.driver_id = NULL, !.vehicle_id = NULL]

\* UPDATE bookings SET status = 'cancelled', cancelled_at = ?,
\*   cancelled_by = ?, cancellation_reason = 'Cancelled by user'
CancelRow(row, u) ==
    [row EXCEPT !.status = "cancelled", !.cancelled_at = TRUE,
                !.cancelled_by = u,
                !.cancellation_reason = "Cancelled by user"]

cancel_booking(u, b, rc) ==
    /\ HasRole(u, "pengguna")
    /\ UNCHANGED <<users, sessions, vehicles, locations, trips, notifications,
                   next_user_id>>
    /\ IF ~(b \in BookingIds /\ bookings[b].user_id = u)
       THEN /\ rc = 404
            /\ UNCHANGED <<bookings, audit_log>>
       ELSE IF bookings[b].status \notin {"pending", "accepted"}
       THEN /\ rc = 400
            /\ UNCHANGED <<bookings, audit_log>>
       ELSE /\ rc = 200
            /\ bookings' = [bookings EXCEPT ![b] = CancelRow(@, u)]
            /\ log_audit(u, "cancel", "booking", b)

\* ----------------------------------------------- update_booking_status
\* A lookup that also finds the bookings no driver has yet.
UnassignedOrOwn(d, b) ==
    b \in BookingIds /\ bookings[b].driver_id \in {d, NULL}

\* A lookup by id alone, for any driver.
AnyBooking(d, b) == b \in BookingIds

\* SELECT * FROM bookings WHERE id = ? AND driver_id = ?
OwnBooking(d, b) == b \in BookingIds /\ bookings[b].driver_id = d

\* SELECT id FROM vehicles WHERE driver_id = ?  (fetchone: any row of it)
VehiclesOf(d) == {v \in DOMAIN vehicles : vehicles[v].driver_id = d}

\* A trips table with no constraint on booking_id.
NoTripYet(b) == FALSE

\* trips.booking_id is UNIQUE: a second row for the booking is refused.
TripExists(b) == \E t \in TripIds : trips[t].booking_id = b

\* The row as INSERTed: status takes its column default, 'ongoing'.
NewTrip(b, d, v) ==
    [booking_id |-> b, driver_id |-> d, vehicle_id |-> v, status |-> "ongoing",
     start_time |-> TRUE, end_time |-> FALSE]

\* A completion that leaves the trips table alone.
LeaveTrips(b, d) == trips

\* A completion that closes every trip of the driver.
CloseAllOf(b, d) ==
    [t \in TripIds |->
        IF trips[t].driver_id = d
        THEN [trips[t] EXCEPT !.status = "completed", !.end_time = TRUE]
        ELSE trips[t]]

\* UPDATE trips SET end_time = ?, status = 'completed'
\*   WHERE booking_id = ? AND driver_id = ?
CloseTrips(b, d) ==
    [t \in TripIds |->
        IF trips[t].booking_id = b /\ trips[t].driver_id = d
        THEN [trips[t] EXCEPT !.status = "completed", !.end_time = TRUE]
        ELSE trips[t]]

\* A handler that marks the rider as not shown up when the driver arrives.
SetNoShow(b, status) ==
    [bookings EXCEPT ![b].status =
        IF status = "driver_arriving" THEN "no_show" ELSE status]

\* UPDATE bookings SET status = ? WHERE id = ?
SetStatus(b, status) == [bookings EXCEPT ![b].status = status]

\* A failed trip INSERT with the status UPDATE kept.
KeptOngoing(b) == SetStatus(b, "ongoing")

\* The bookings table after the handler raised with its UPDATE not yet
\* committed: get_db closes the connection, and the UPDATE is rolled back.
AfterRaise(b) == bookings

update_booking_status(d, b, t, rc) ==
    /\ HasRole(d, "driver")
    /\ UNCHANGED <<users, sessions, vehicles, locations, notifications,
                   next_user_id>>
    /\ IF ~OwnBooking(d, b)
       THEN /\ rc = 404
            /\ UNCHANGED <<bookings, trips, audit_log>>
       ELSE
       \/ /\ rc = 200
          /\ t = "driver_arriving"
          /\ bookings' = SetStatus(b, "driver_arriving")
          /\ UNCHANGED trips
          /\ log_audit(d, "status_update", "booking", b)
       \/ \* the driver has no vehicles row: no trip is written
          /\ rc = 200
          /\ t = "ongoing"
          /\ VehiclesOf(d) = {}
          /\ bookings' = SetStatus(b, "ongoing")
          /\ UNCHANGED trips
          /\ log_audit(d, "status_update", "booking", b)
       \/ \* the INSERT raises IntegrityError: the UPDATE before it is lost
          /\ rc = 500
          /\ t = "ongoing"
          /\ VehiclesOf(d) # {}
          /\ TripExists(b)
          /\ bookings' = AfterRaise(b)
          /\ UNCHANGED <<trips, audit_log>>
       \/ /\ rc = 200
          /\ t = "ongoing"
          /\ ~TripExists(b)
          /\ \E v \in VehiclesOf(d) :
                trips' = Append(trips, NewTrip(b, d, v))
          /\ bookings' = SetStatus(b, "ongoing")
          /\ log_audit(d, "status_update", "booking", b)
       \/ /\ rc = 200
          /\ t = "completed"
          /\ bookings' = SetStatus(b, "completed")
          /\ trips' = CloseTrips(b, d)
          /\ log_audit(d, "status_update", "booking", b)
       \/ /\ rc = 400
          /\ t \notin {"driver_arriving", "ongoing", "completed"}
          /\ UNCHANGED <<bookings, trips, audit_log>>

\* ------------------------------------- create_location, update_location
\* (name, latitude) of a LocationCreate: the name of a seeded stop or a
\* new one, at the place of a seeded stop or at a new one.
PlaceInputs == {"PPS", "Halte Baru"} \X {"-7.1645", "-7.1700"}

\* locations.name is UNIQUE: a row other than l has the name.
NameTaken(name, l) ==
    \E x \in (DOMAIN locations) \ {l} : locations[x].name = name

\* INSERT INTO locations (name, ..., latitude, ..., status, ...)
\*   VALUES (?, ..., 'active', ...)
create_location(admin, name, latitude, rc) ==
    /\ HasRole(admin, "admin")
    /\ UNCHANGED <<users, sessions, vehicles, bookings, trips, notifications,
                   next_user_id>>
    /\ IF NameTaken(name, NULL)
       THEN /\ rc = 500
            /\ UNCHANGED <<locations, audit_log>>
       ELSE /\ rc = 200
            /\ locations' = locations @@
                  (Cardinality(DOMAIN locations) + 1 :>
                      [status |-> "active", name |-> name, latitude |-> latitude])
            /\ log_audit(admin, "create", "location", Cardinality(DOMAIN locations) + 1)

\* UPDATE locations SET name = ?, ..., latitude = ?, ... WHERE id = ?
Renamed(l, name, latitude) ==
    [x \in DOMAIN locations |->
        IF x = l
        THEN [locations[x] EXCEPT !.name = name, !.latitude = latitude]
        ELSE locations[x]]

\* No row of that id: nothing is updated, and the answer is the same.
update_location(admin, l, name, latitude, rc) ==
    /\ HasRole(admin, "admin")
    /\ UNCHANGED <<users, sessions, vehicles, bookings, trips, notifications,
                   next_user_id>>
    /\ IF l \in DOMAIN locations /\ NameTaken(name, l)
       THEN /\ rc = 500
            /\ UNCHANGED <<locations, audit_log>>
       ELSE /\ rc = 200
            /\ locations' = Renamed(l, name, latitude)
            /\ log_audit(admin, "update", "location", l)

\* ----------------------------------------------------- delete_location
\* UPDATE locations SET status = 'inactive' WHERE id = ?  (no row of that
\* id: nothing is updated, and the answer is the same)
delete_location(admin, l, rc) ==
    /\ HasRole(admin, "admin")
    /\ rc = 200
    /\ locations' = [x \in DOMAIN locations |->
           IF x = l THEN [locations[x] EXCEPT !.status = "inactive"]
           ELSE locations[x]]
    /\ log_audit(admin, "delete", "location", l)
    /\ UNCHANGED <<users, sessions, vehicles, bookings, trips, notifications,
                   next_user_id>>

\* ------------------------------------------------ delete_user_account
\* UPDATE bookings SET status = 'cancelled', ... WHERE user_id = ?
\*   AND status NOT IN ('completed', 'cancelled')
CancelAllOf(u, admin) ==
    [b \in BookingIds |->
        IF bookings[b].user_id = u
           /\ bookings[b].status \notin {"completed", "cancelled"}
        THEN [bookings[b] EXCEPT !.status = "cancelled",
                                 !.cancelled_at = TRUE,
                                 !.cancelled_by = admin,
                                 !.cancellation_reason = "User account deleted"]
        ELSE bookings[b]]

\* PRAGMA foreign_keys = ON: rows that still reference users(id) = u when
\* DELETE FROM users runs, given the bookings and notifications as the
\* statements before it left them.
Referenced(u, bks, notes) ==
    \/ \E b \in DOMAIN bks :
          u \in {bks[b].user_id, bks[b].driver_id, bks[b].cancelled_by}
    \/ \E t \in TripIds : trips[t].driver_id = u
    \/ \E v \in DOMAIN vehicles : vehicles[v].driver_id = u
    \/ \E n \in notes : n.user_id = u
    \/ \E a \in audit_log : a.user_id = u

\* A failure that keeps the DELETE FROM sessions.
SessionsGone(u) == sessions \ {u}

\* The sessions table after DELETE FROM users raised: the except clause
\* rolls back the DELETE FROM sessions made before it.
RolledBack(u) == sessions

delete_user_account(admin, u, rc) ==
    /\ HasRole(admin, "admin")
    /\ UNCHANGED <<vehicles, locations, trips, next_user_id>>
    /\ IF u \notin DOMAIN users
       THEN /\ rc = 404
            /\ UNCHANGED <<users, sessions, bookings, notifications, audit_log>>
       ELSE IF users[u].role \in {"admin", "driver"}
       THEN /\ rc = 403
            /\ UNCHANGED <<users, sessions, bookings, notifications, audit_log>>
       ELSE LET bks == CancelAllOf(u, admin)
                notes == {n \in notifications : n.user_id # u}
            IN  IF Referenced(u, bks, notes)
                THEN \* DELETE FROM users raises: conn.rollback()
                     /\ rc = 500
                     /\ sessions' = RolledBack(u)
                     /\ UNCHANGED <<users, bookings, notifications, audit_log>>
                ELSE /\ rc = 200
                     /\ users' = [x \in (DOMAIN users) \ {u} |-> users[x]]
                     /\ sessions' = sessions \ {u}
                     /\ bookings' = bks
                     /\ notifications' = notes
                     /\ log_audit(admin, "delete_user", "user", u)

\* --------------------------------------- status requests in flight
\* A driver's client sends a status update for one of the bookings its
\* listing shows (get_driver_bookings: the driver's own bookings that are
\* neither completed nor cancelled).  The request records the status the
\* booking had when it was sent, and the requests for the same booking,
\* sent from that same status, that were in flight at that moment.
Listed(b) ==
    /\ b \in BookingIds
    /\ bookings[b].driver_id # NULL
    /\ bookings[b].status \notin {"completed", "cancelled"}

InFlightOn(b) ==
    {j \in 1..MaxInflight :
        /\ inflight[j].state = "sent"
        /\ inflight[j].booking = b
        /\ inflight[j].src = bookings[b].status}

FreeSlots == {j \in 1..MaxInflight : inflight[j].state = "free"}

send_status(b, t) ==
    /\ FreeSlots # {}
    /\ Listed(b)
    /\ LET i == CHOOSE j \in FreeSlots : \A k \in FreeSlots : j <= k
       IN  inflight' = [inflight EXCEPT ![i] =
               [state |-> "sent", driver |-> bookings[b].driver_id,
                booking |-> b, target |-> t, src |-> bookings[b].status,
                rivals |-> InFlightOn(b), code |-> 0]]
    /\ UNCHANGED <<dbvars, resp, txn, seen, location_history, hubvars>>

\* The handler runs on a request in flight; its answer travels back.
handle_status(i, rc) ==
    /\ inflight[i].state = "sent"
    /\ update_booking_status(inflight[i].driver, inflight[i].booking,
                             inflight[i].target, rc)
    /\ inflight' = [inflight EXCEPT ![i].state = "done", ![i].code = rc]
    /\ UNCHANGED <<resp, txn, seen, location_history, hubvars>>

\* The client receives the answer.
receive_status(i) ==
    /\ inflight[i].state = "done"
    /\ inflight' = [j \in 1..MaxInflight |->
           IF j = i THEN [state |-> "free"]
           ELSE IF inflight[j].state = "free" THEN inflight[j]
           ELSE [inflight[j] EXCEPT !.rivals = @ \ {i}]]
    /\ UNCHANGED <<dbvars, resp, txn, seen, location_history, hubvars>>

\* ------------------------------------------------- ConnectionManager
\* The methods of the hub, for every call their signatures admit
\* (websocket_endpoint itself calls connect(websocket) with no user_id and
\* no role).  Websockets are numbered in the order they connect.  A send
\* on a websocket succeeds while its peer is there and raises afterwards.
\* One broadcast is in progress at a time; it is suspended at the await of
\* each send, where any other method may run.

\* (user_id, role) arguments of connect: none, or a driver's.
ConnectInputs ==
    {<<NULL, "none">>, <<Driver1Id, "driver">>, <<Driver2Id, "driver">>}

Subscribed == {active_connections[i] : i \in DOMAIN active_connections}

\* if role == "driver" and user_id: self.driver_connections[user_id] = websocket
Index(index, ws, user_id, role) ==
    IF role = "driver" /\ user_id # NULL
    THEN [k \in (DOMAIN index) \cup {user_id} |->
             IF k = user_id THEN ws ELSE index[k]]
    ELSE index

connect(ws, user_id, role) ==
    /\ ws = Len(connect_args) + 1
    /\ connect_args' = Append(connect_args, [user_id |-> user_id, role |-> role])
    /\ open' = open \cup {ws}
    /\ active_connections' = Append(active_connections, ws)
    /\ driver_connections' = Index(driver_connections, ws, user_id, role)
    /\ UNCHANGED <<dbvars, resp, inflight, txn, seen, location_history, pass,
                   notified>>

\* A disconnect that leaves the driver index alone.
KeepIndex(index, gone) == index

\* A disconnect that empties the list.
Cleared(list, gone) == <<>>

\* self.active_connections.remove(websocket), for each websocket of gone
Removed(list, gone) == SelectSeq(list, LAMBDA c : c \notin gone)

\* del self.driver_connections[driver_id] for every entry whose value is a
\* websocket of gone
Unindexed(index, gone) ==
    [k \in {k \in DOMAIN index : index[k] \notin gone} |-> index[k]]

disconnect(ws) ==
    /\ ws \in DOMAIN connect_args
    /\ active_connections' = Removed(active_connections, {ws})
    /\ driver_connections' = Unindexed(driver_connections, {ws})
    /\ UNCHANGED <<dbvars, resp, inflight, txn, seen, location_history,
                   connect_args, open, pass, notified>>

\* The peer of a websocket goes away.
peer_close(ws) ==
    /\ ws \in open
    /\ open' = open \ {ws}
    /\ UNCHANGED <<dbvars, resp, inflight, txn, seen, location_history,
                   active_connections, driver_connections, connect_args, pass,
                   notified>>

\* A pass that stops at the first send that raises.
SendOrAbort(p) ==
    LET c == Head(p.todo)
    IN  IF c \in open
        THEN [p EXCEPT !.todo = Tail(@), !.got = @ \cup {c}]
        ELSE [p EXCEPT !.todo = <<>>, !.failed = @ \cup {c}]

\* One turn of the loop: await connection.send_json(message), and
\* dead_connections.append(connection) if it raises.
SendNext(p) ==
    LET c == Head(p.todo)
    IN  IF c \in open
        THEN [p EXCEPT !.todo = Tail(@), !.got = @ \cup {c}]
        ELSE [p EXCEPT !.todo = Tail(@), !.failed = @ \cup {c}]

\* for connection in list(self.active_connections): the list is copied,
\* and the first send is made before anything else can run.
StartPass ==
    IF active_connections = <<>>
    THEN [state |-> "done", snapshot |-> {}, todo |-> <<>>, got |-> {},
          failed |-> {}]
    ELSE SendNext([state |-> "sending", snapshot |-> Subscribed,
                   todo |-> active_connections, got |-> {}, failed |-> {}])

broadcast ==
    /\ pass.state # "sending"
    /\ pass' = StartPass
    /\ UNCHANGED <<dbvars, resp, inflight, txn, seen, location_history,
                   active_connections, driver_connections, connect_args, open,
                   notified>>

\* The pass resumes after a send: the next send, or, after the last one,
\* self.disconnect(conn) for every conn of dead_connections.
broadcast_resume ==
    /\ pass.state = "sending"
    /\ IF pass.todo # <<>>
       THEN /\ pass' = SendNext(pass)
            /\ UNCHANGED <<active_connections, driver_connections>>
       ELSE /\ pass' = [pass EXCEPT !.state = "done"]
            /\ active_connections' = Removed(active_connections, pass.failed)
            /\ driver_connections' = Unindexed(driver_connections, pass.failed)
    /\ UNCHANGED <<dbvars, resp, inflight, txn, seen, location_history,
                   connect_args, open, notified>>

\* A hub that sends a driver's message to every connection.
Everyone(driver_id) == Subscribed

\* ws = self.driver_connections.get(driver_id)
Recipients(driver_id) ==
    IF driver_id \in DOMAIN driver_connections
    THEN {driver_connections[driver_id]}
    ELSE {}

\* if ws: await ws.send_json(message), ignoring a send that raises: who
\* the message is for, who gets it, and whether the send raised.
Push(driver_id) ==
    [driver |-> driver_id, to |-> Recipients(driver_id) \cap open,
     raised |-> Recipients(driver_id) \ open # {}]

send_to_driver(driver_id) ==
    /\ notified' = Push(driver_id)
    /\ UNCHANGED <<dbvars, resp, inflight, txn, seen, location_history,
                   active_connections, driver_connections, connect_args, open,
                   pass>>

\* ------------------------------------- create_booking, statement by statement
\* The handler's connection holds its writes in a transaction of its own
\* until log_audit commits; the other connections (every request opens
\* one in get_db) read the committed tables.  The handler can be suspended
\* at its await, and a second worker process runs at any time: a listing
\* may be served between any two statements of the handler.

\* An INSERT that is committed at once.
VisibleAtInsert(row) == Append(bookings, row)

\* The committed bookings table after the INSERT of lines 388-393: no
\* commit follows it, the row is in the handler's transaction only.
CommittedAfterInsert(row) == bookings

\* Lines 379-393: the location check and the INSERT.
create_insert(u, f, t, code) ==
    /\ txn.state = "none"
    /\ HasRole(u, "pengguna")
    /\ Cardinality(ActiveRows(f, t)) = 2
    /\ ~CodeTaken(code)
    /\ txn' = [state |-> "inserted", id |-> Len(bookings) + 1, user |-> u,
               row |-> NewBooking(code, u, f, t), notes |-> {}]
    /\ bookings' = CommittedAfterInsert(NewBooking(code, u, f, t))
    /\ UNCHANGED <<users, sessions, vehicles, locations, trips, notifications,
                   audit_log, next_user_id, resp, inflight, seen,
                   location_history, hubvars>>

\* A handler that a raising send puts an end to.
StopIfRaised(t, push) ==
    IF push.raised THEN [t EXCEPT !.state = "failed"] ELSE t

\* try: await manager.send_to_driver(...) except Exception: pass
\* The handler goes on, whatever the send did.
AfterSend(t, push) == t

\* Lines 395-424: the query and, if it has a row, the UPDATE, the
\* notification and the new_booking message to the driver.
create_dispatch ==
    /\ txn.state = "inserted"
    /\ \/ /\ EligiblePairs = {}
          /\ txn' = [txn EXCEPT !.state = "dispatched"]
          /\ UNCHANGED notified
       \/ \E p \in EligiblePairs :
             /\ notified' = Push(p[1])
             /\ txn' = AfterSend(
                    [txn EXCEPT !.state = "dispatched",
                                !.row = Assign(@, p[1], p[2]),
                                !.notes = {[user_id |-> p[1],
                                            booking_code |-> txn.row.booking_code]}],
                    Push(p[1]))
    /\ UNCHANGED <<dbvars, resp, inflight, seen, location_history,
                   active_connections, driver_connections, connect_args, open,
                   pass>>

\* Lines 430-439: the audit row, the commit and the answer.
create_commit ==
    /\ txn.state = "dispatched"
    /\ bookings' = [b \in 1..txn.id |->
                       IF b = txn.id THEN txn.row ELSE bookings[b]]
    /\ notifications' = notifications \cup txn.notes
    /\ log_audit(txn.user, "create", "booking", txn.id)
    /\ txn' = NoTxn
    /\ resp' = Response("create", 200)
    /\ UNCHANGED <<users, sessions, vehicles, locations, trips, next_user_id,
                   inflight, seen, location_history, hubvars>>

\* get_my_bookings, get_driver_bookings and get_all_bookings: the rows
\* of the committed table the caller may list.
ListedFor(u) ==
    {bookings[b] : b \in
        {b \in BookingIds :
            \/ users[u].role = "admin"
            \/ users[u].role = "pengguna" /\ bookings[b].user_id = u
            \/ /\ users[u].role = "driver"
               /\ bookings[b].driver_id = u
               /\ bookings[b].status \notin {"completed", "cancelled"}}}

list_bookings(u) ==
    /\ u \in DOMAIN users
    /\ users[u].status = "active"
    /\ seen' = [during |-> txn.state, rows |-> ListedFor(u)]
    /\ UNCHANGED <<dbvars, resp, inflight, txn, location_history, hubvars>>

\* ---------------------------------------------- submit_driver_location
\* Every trip, whoever drives it.
AnyTrips(d) == TripIds

\* The driver's trips, open or closed.
AllTripsOf(d) == {t \in TripIds : trips[t].driver_id = d}

\* SELECT id FROM trips WHERE driver_id = ? AND status = 'ongoing'
OpenTripsOf(d) ==
    {t \in TripIds : trips[t].driver_id = d /\ trips[t].status = "ongoing"}

\* ORDER BY start_time DESC LIMIT 1: trips are inserted in the order of
\* their start_time.
LatestTrip(d) ==
    CHOOSE t \in OpenTripsOf(d) : \A x \in OpenTripsOf(d) : x <= t

\* The handler commits the sample and then awaits manager.broadcast.
submit_driver_location(d, rc) ==
    /\ HasRole(d, "driver")
    /\ IF OpenTripsOf(d) = {}
       THEN /\ rc = 400
            /\ UNCHANGED <<location_history, pass>>
       ELSE /\ rc = 200
            /\ pass.state # "sending"
            /\ location_history' =
                  Append(location_history, [trip_id |-> LatestTrip(d), driver_id |-> d])
            /\ pass' = StartPass
    /\ resp' = Response("location", rc)
    /\ UNCHANGED <<dbvars, inflight, txn, seen, active_connections,
                   driver_connections, connect_args, open, notified>>

\* ------------------------------------------------------ specifications
UserIds == AdminId..(StudentId + MaxRegistrations)

\* secrets.token_hex(3), the random suffix of a booking code (the date
\* prefix is the same for all bookings of one day): a value no booking
\* has yet, or the value of any stored booking.
CodeInputs ==
    {Len(bookings) + 1} \cup {bookings[b].booking_code : b \in BookingIds}

\* The answer is not recorded.
Silent == UNCHANGED <<resp, inflight, txn, seen, location_history, hubvars>>

\* The answer is recorded.
Answer(op, rc) ==
    /\ resp' = Response(op, rc)
    /\ UNCHANGED <<inflight, txn, seen, location_history, hubvars>>

\* The database under the handlers, for the seeded users.
Next ==
    \/ \E u \in UserIds, r \in RouteInputs, c \in CodeInputs, rc \in HttpCodes :
          /\ create_booking(u, r[1], r[2], c, rc)
          /\ Len(bookings') <= MaxBookings
          /\ Silent
    \/ \E u \in UserIds, b \in 1..MaxBookings, rc \in HttpCodes :
          cancel_booking(u, b, rc) /\ Silent
    \/ \E d \in UserIds, b \in 1..MaxBookings, t \in TargetStatuses, rc \in HttpCodes :
          update_booking_status(d, b, t, rc) /\ Silent
    \/ \E a \in UserIds, u \in UserIds, rc \in HttpCodes :
          delete_user_account(a, u, rc) /\ Silent

Spec == Init /\ [][Next]_vars

\* The handlers with their answers, for the seeded users.
NextResp ==
    \/ \E u \in UserIds, r \in RouteInputs, c \in CodeInputs, rc \in HttpCodes :
          /\ create_booking(u, r[1], r[2], c, rc)
          /\ Len(bookings') <= RespBookings
          /\ Answer("create", rc)
    \/ \E u \in UserIds, b \in 1..RespBookings, rc \in HttpCodes :
          cancel_booking(u, b, rc) /\ Answer("cancel", rc)
    \/ \E d \in UserIds, b \in 1..RespBookings, t \in TargetStatuses, rc \in HttpCodes :
          update_booking_status(d, b, t, rc) /\ Answer("status", rc)
    \/ \E a \in UserIds, u \in UserIds, rc \in HttpCodes :
          delete_user_account(a, u, rc) /\ Answer("delete_user", rc)

SpecResp == Init /\ [][NextResp]_vars

\* Students registering themselves, booking, cancelling and being deleted
\* by the admin.  get_current_user: a request is served for a user who
\* has a sessions row.
NextRiders ==
    \/ \E rc \in HttpCodes :
          /\ next_user_id <= StudentId + MaxRegistrations
          /\ login_register(rc)
          /\ Answer("login", rc)
    \/ \E u \in {AdminId} \cup (StudentId..(StudentId + MaxRegistrations)),
          rc \in HttpCodes :
          login(u, rc) /\ Answer("login", rc)
    \/ \E u \in sessions, c \in CodeInputs, rc \in HttpCodes :
          /\ create_booking(u, 1, 2, c, rc)
          /\ Len(bookings') <= RiderBookings
          /\ Answer("create", rc)
    \/ \E u \in sessions, b \in 1..RiderBookings, rc \in HttpCodes :
          cancel_booking(u, b, rc) /\ Answer("cancel", rc)
    \/ \E a \in sessions, u \in UserIds, rc \in HttpCodes :
          delete_user_account(a, u, rc) /\ Answer("delete_user", rc)

SpecRiders == Init /\ [][NextRiders]_vars

\* Students registering themselves, booking and cancelling, and the
\* drivers moving the bookings on.
NextCancel ==
    \/ \E rc \in HttpCodes :
          /\ next_user_id <= StudentId + MaxRegistrations
          /\ login_register(rc)
          /\ Answer("login", rc)
    \/ \E u \in UserIds, c \in CodeInputs, rc \in HttpCodes :
          /\ create_booking(u, 1, 2, c, rc)
          /\ Len(bookings') <= RiderBookings
          /\ Answer("create", rc)
    \/ \E u \in UserIds, b \in 1..RiderBookings, rc \in HttpCodes :
          cancel_booking(u, b, rc) /\ Answer("cancel", rc)
    \/ \E d \in UserIds, b \in 1..RiderBookings, t \in TargetStatuses, rc \in HttpCodes :
          update_booking_status(d, b, t, rc) /\ Answer("status", rc)

SpecCancel == Init /\ [][NextCancel]_vars

\* Bookings created statement by statement, cancelled, and listed.
NextSteps ==
    \/ \E r \in RouteInputs, c \in CodeInputs :
          /\ Len(bookings) < MaxBookings
          /\ create_insert(StudentId, r[1], r[2], c)
    \/ create_dispatch
    \/ create_commit
    \/ \E b \in 1..MaxBookings, rc \in HttpCodes :
          /\ txn.state = "none"
          /\ cancel_booking(StudentId, b, rc)
          /\ Silent
    \/ \E u \in UserIds : list_bookings(u)

SpecSteps == Init /\ [][NextSteps]_vars

\* Stops being closed while bookings are created.  The service starts
\* with the seeded stops, or with one of them marked 'temporary': the
\* schema has that status, and no handler writes it.
InitSites ==
    /\ users = SeedUsers
    /\ sessions = {}
    /\ vehicles \in InitFleets
    /\ locations \in {SeedLocations, [SeedLocations EXCEPT ![2].status = "temporary"]}
    /\ bookings = <<>>
    /\ trips = <<>>
    /\ notifications = {}
    /\ audit_log = {}
    /\ next_user_id = StudentId + 1
    /\ resp = NoResp
    /\ inflight = [i \in 1..MaxInflight |-> [state |-> "free"]]
    /\ txn = NoTxn
    /\ seen = NotListed
    /\ location_history = <<>>
    /\ HubInit

LocationInputs == 1..3

NextSites ==
    \/ \E u \in UserIds, r \in RouteInputs, c \in CodeInputs, rc \in HttpCodes :
          /\ create_booking(u, r[1], r[2], c, rc)
          /\ Len(bookings') <= RespBookings
          /\ Answer("create", rc)
    \/ \E a \in UserIds, l \in LocationInputs, rc \in HttpCodes :
          delete_location(a, l, rc) /\ Answer("delete_location", rc)

SpecSites == InitSites /\ [][NextSites]_vars

\* Bookings created and cancelled, with the answers.
NextCodes ==
    \/ \E u \in UserIds, r \in RouteInputs, c \in CodeInputs, rc \in HttpCodes :
          /\ create_booking(u, r[1], r[2], c, rc)
          /\ Len(bookings') <= MaxBookings
          /\ Answer("create", rc)
    \/ \E u \in UserIds, b \in 1..MaxBookings, rc \in HttpCodes :
          cancel_booking(u, b, rc) /\ Answer("cancel", rc)

SpecCodes == Init /\ [][NextCodes]_vars

\* The hub under its callers.
NextHub ==
    \/ \E a \in ConnectInputs :
          /\ Len(connect_args) < MaxSockets
          /\ connect(Len(connect_args) + 1, a[1], a[2])
    \/ \E ws \in 1..MaxSockets : disconnect(ws)
    \/ \E ws \in 1..MaxSockets : peer_close(ws)
    \/ broadcast
    \/ broadcast_resume
    \/ \E d \in {Driver1Id, Driver2Id} : send_to_driver(d)

SpecHub == Init /\ [][NextHub]_vars

\* Drivers reporting where they are, to the clients connected to
\* /ws/tracking.
NextTrack ==
    \/ \E c \in CodeInputs, rc \in HttpCodes :
          /\ create_booking(StudentId, 1, 2, c, rc)
          /\ Len(bookings') <= RespBookings
          /\ Silent
    \/ \E d \in UserIds, b \in 1..RespBookings, t \in TargetStatuses, rc \in HttpCodes :
          update_booking_status(d, b, t, rc) /\ Silent
    \/ \E d \in UserIds, rc \in HttpCodes :
          /\ Len(location_history) < MaxSamples \/ rc # 200
          /\ submit_driver_location(d, rc)
    \/ /\ Len(connect_args) < MaxSockets
       /\ connect(Len(connect_args) + 1, NULL, "none")
    \/ broadcast_resume

SpecTrack == Init /\ [][NextTrack]_vars

\* Bookings created, cancelled and driven, and the drivers reporting
\* where they are, with nobody connected to /ws/tracking.
NextFrame ==
    \/ \E c \in CodeInputs, rc \in HttpCodes :
          /\ create_booking(StudentId, 1, 2, c, rc)
          /\ Len(bookings') <= RespBookings
          /\ Silent
    \/ \E b \in 1..RespBookings, rc \in HttpCodes :
          cancel_booking(StudentId, b, rc) /\ Silent
    \/ \E d \in UserIds, b \in 1..RespBookings, t \in TargetStatuses, rc \in HttpCodes :
          update_booking_status(d, b, t, rc) /\ Silent
    \/ \E d \in UserIds, rc \in HttpCodes :
          /\ Len(location_history) < MaxSamples \/ rc # 200
          /\ submit_driver_location(d, rc)

SpecFrame == Init /\ [][NextFrame]_vars

\* Bookings created statement by statement and driven, and the drivers
\* reporting where they are, while drivers connect to the hub and go away.
NextPush ==
    \/ \E a \in {x \in ConnectInputs : x[2] = "driver"} :
          /\ Len(connect_args) < PushSockets
          /\ connect(Len(connect_args) + 1, a[1], a[2])
    \/ \E ws \in 1..PushSockets : peer_close(ws)
    \/ \E c \in CodeInputs :
          /\ Len(bookings) < RespBookings
          /\ create_insert(StudentId, 1, 2, c)
    \/ create_dispatch
    \/ create_commit
    \/ \E d \in UserIds, b \in 1..RespBookings, t \in {"ongoing", "completed"},
          rc \in HttpCodes :
          update_booking_status(d, b, t, rc) /\ Silent
    \/ \E d \in UserIds, rc \in HttpCodes :
          /\ Len(location_history) < PushSamples \/ rc # 200
          /\ submit_driver_location(d, rc)
    \/ broadcast_resume

SpecPush == Init /\ [][NextPush]_vars

\* Stops created, changed and closed while bookings are created.
NextPlaces ==
    \/ \E c \in CodeInputs, rc \in HttpCodes :
          /\ create_booking(StudentId, 1, 2, c, rc)
          /\ Len(bookings') <= RespBookings
          /\ Silent
    \/ \E a \in UserIds, p \in PlaceInputs, rc \in HttpCodes :
          /\ Cardinality(DOMAIN locations) < MaxLocations \/ rc # 200
          /\ create_location(a, p[1], p[2], rc)
          /\ Answer("create_location", rc)
    \/ \E a \in UserIds, l \in LocationInputs, p \in PlaceInputs, rc \in HttpCodes :
          update_location(a, l, p[1], p[2], rc) /\ Answer("update_location", rc)
    \/ \E a \in UserIds, l \in LocationInputs, rc \in HttpCodes :
          delete_location(a, l, rc) /\ Answer("delete_location", rc)

SpecPlaces == Init /\ [][NextPlaces]_vars

\* (from, to) pairs of the seeded stops: each stop twice, and the two.
SameStopInputs == {<<1, 1>>, <<2, 2>>, <<1, 2>>}

\* Bookings between the seeded stops, which are all active, with the
\* answers.
NextRoutes ==
    \/ \E r \in SameStopInputs, c \in CodeInputs, rc \in HttpCodes :
          /\ create_booking(StudentId, r[1], r[2], c, rc)
          /\ Len(bookings') <= MaxBookings
          /\ Answer("create", rc)
    \/ \E b \in 1..MaxBookings, rc \in HttpCodes :
          cancel_booking(StudentId, b, rc) /\ Answer("cancel", rc)

SpecRoutes == Init /\ [][NextRoutes]_vars

\* Status requests of the drivers' clients in flight.
NextInflight ==
    \/ \E r \in RouteInputs, c \in CodeInputs, rc \in HttpCodes :
          /\ create_booking(StudentId, r[1], r[2], c, rc)
          /\ Len(bookings') <= InflightBookings
          /\ Silent
    \/ \E b \in 1..MaxBookings, t \in TargetStatuses : send_status(b, t)
    \/ \E i \in 1..MaxInflight, rc \in HttpCodes : handle_status(i, rc)
    \/ \E i \in 1..MaxInflight : receive_status(i)

SpecInflight == Init /\ [][NextInflight]_vars

\* ================================================================ claims

\* Statuses in which a booking holds a driver and a vehicle (I1), and in
\* which it occupies its vehicle (I2).
AssignedStatuses == {"accepted", "driver_arriving", "ongoing", "completed"}
ActiveStatuses == {"accepted", "driver_arriving", "ongoing"}

\* Position of a status on the forward path.
Rank(status) ==
    CASE status = "pending" -> 1
      [] status = "accepted" -> 2
      [] status = "driver_arriving" -> 3
      [] status = "ongoing" -> 4
      [] status = "completed" -> 5
      [] OTHER -> 0

OnPath(status) == Rank(status) > 0

\* The driver transitions of the table: (source, target).
DriverTransitions ==
    {<<"accepted", "driver_arriving">>, <<"driver_arriving", "ongoing">>,
     <<"ongoing", "completed">>}

\* C1 (I1): for every booking, driver_id and vehicle_id are non-null if
\* and only if its status is accepted, driver_arriving, ongoing or
\* completed.
C1_DriverIffAssigned ==
    \A b \in BookingIds :
        /\ (bookings[b].driver_id # NULL) <=> (bookings[b].status \in AssignedStatuses)
        /\ (bookings[b].vehicle_id # NULL) <=> (bookings[b].status \in AssignedStatuses)

\* C2 (I4): every committed change of a booking's status moves forward
\* along pending -> accepted -> driver_arriving -> ongoing -> completed,
\* or moves to cancelled from pending, accepted or driver_arriving.
C2_StatusMonotonic ==
    [][\A b \in BookingIds :
          bookings'[b].status # bookings[b].status =>
             \/ /\ OnPath(bookings[b].status)
                /\ OnPath(bookings'[b].status)
                /\ Rank(bookings'[b].status) > Rank(bookings[b].status)
             \/ /\ bookings'[b].status = "cancelled"
                /\ bookings[b].status \in {"pending", "accepted", "driver_arriving"}]_vars

\* C3: a driver's status request succeeds only for the pairs
\* accepted -> driver_arriving, driver_arriving -> ongoing and
\* ongoing -> completed; for every other (current status, target) it fails.
C3_OnlyTableTransitions ==
    [][\A d \in UserIds, b \in BookingIds, t \in TargetStatuses :
          update_booking_status(d, b, t, 200) =>
             <<bookings[b].status, t>> \in DriverTransitions]_vars

\* C4 (I3): each driver has at most one trip with status ongoing.
C4_OneOngoingTripPerDriver ==
    \A t1 \in TripIds, t2 \in TripIds :
        (/\ trips[t1].status = "ongoing"
         /\ trips[t2].status = "ongoing"
         /\ trips[t1].driver_id = trips[t2].driver_id) => t1 = t2

\* C5: no two bookings whose status is accepted, driver_arriving or
\* ongoing reference the same vehicle.
C5_NoDoubleAssignment ==
    \A b1 \in BookingIds, b2 \in BookingIds :
        (/\ bookings[b1].status \in ActiveStatuses
         /\ bookings[b2].status \in ActiveStatuses
         /\ bookings[b1].vehicle_id = bookings[b2].vehicle_id) => b1 = b2

\* C6: of two status requests for one booking that were both sent while
\* the booking was in the same source status, at most one succeeds.
C6_AtMostOneSucceeds ==
    \A i \in 1..MaxInflight, j \in 1..MaxInflight :
        ~(/\ inflight[i].state = "done"
          /\ inflight[j].state = "done"
          /\ i \in inflight[j].rivals
          /\ inflight[i].code = 200
          /\ inflight[j].code = 200)

\* C7: create_booking called with two active locations while an eligible
\* pair exists answers accepted; the stored booking is accepted with the
\* driver and vehicle of one eligible pair, and the same commit stores a
\* notification addressed to that driver.
C7_CreateAssigns ==
    [][\A u \in UserIds, r \in RouteInputs, c \in CodeInputs, rc \in HttpCodes :
          (/\ create_booking(u, r[1], r[2], c, rc)
           /\ Cardinality(ActiveRows(r[1], r[2])) = 2
           /\ EligiblePairs # {}) =>
             /\ rc = 200
             /\ Len(bookings') = Len(bookings) + 1
             /\ LET row == bookings'[Len(bookings')]
                IN  /\ row.status = "accepted"
                    /\ <<row.driver_id, row.vehicle_id>> \in EligiblePairs
                    /\ [user_id |-> row.driver_id, booking_code |-> c]
                          \in notifications' \ notifications]_vars

\* C8: every vehicle referenced by a booking with status accepted,
\* driver_arriving or ongoing has status in_use, and is not a row of the
\* availability query.
C8_AssignedVehicleInUse ==
    \A b \in BookingIds :
        bookings[b].status \in ActiveStatuses =>
            /\ vehicles[bookings[b].vehicle_id].status = "in_use"
            /\ \A p \in EligiblePairs : p[2] # bookings[b].vehicle_id

\* C9 (I2): a vehicle has status in_use only if some booking with status
\* accepted, driver_arriving or ongoing references it.
C9_InUseOnlyIfReferenced ==
    \A v \in DOMAIN vehicles :
        vehicles[v].status = "in_use" =>
            \E b \in BookingIds :
                /\ bookings[b].status \in ActiveStatuses
                /\ bookings[b].vehicle_id = v

\* A vehicle that was assigned to a booking and is referenced by no
\* booking that is still active.
C9_Witness ==
    \E v \in DOMAIN vehicles :
        /\ \E b \in BookingIds :
              /\ bookings[b].vehicle_id = v
              /\ bookings[b].status \in {"completed", "cancelled"}
        /\ \A b \in BookingIds :
              bookings[b].vehicle_id = v => bookings[b].status \notin ActiveStatuses

\* C10: a driver's status request on a booking whose driver_id is not the
\* acting driver (a booking of another driver, or one with no driver)
\* fails, whatever the target, and changes neither bookings nor trips.
C10_NonOwnerRejected ==
    [][\A d \in UserIds, b \in BookingIds, t \in TargetStatuses, rc \in HttpCodes :
          (/\ update_booking_status(d, b, t, rc)
           /\ bookings[b].driver_id # d) =>
             /\ rc # 200
             /\ UNCHANGED <<bookings, trips>>]_vars

\* A status request was answered 404 while every booking id a request
\* can name is a stored booking that has a driver: the request came from
\* the other driver.
C10_Witness ==
    /\ resp = Response("status", 404)
    /\ Len(bookings) = RespBookings
    /\ \A b \in BookingIds : bookings[b].driver_id # NULL

\* C11: a driver's status request that answers an error (not the caller's
\* booking, an unknown target, or a trip INSERT that raises) leaves the
\* bookings table and the trips table as they were.
C11_RejectedChangesNothing ==
    [][\A d \in UserIds, b \in 1..RespBookings, t \in TargetStatuses, rc \in HttpCodes :
          (update_booking_status(d, b, t, rc) /\ rc # 200) =>
             UNCHANGED <<bookings, trips>>]_vars

\* The request that raised while writing the trip: the booking already
\* had its trip, and a driver asked for 'ongoing' again.
C11_Witness ==
    /\ resp = Response("status", 500)
    /\ \E t \in TripIds : bookings[trips[t].booking_id].status = "ongoing"

\* C12: cancel_booking succeeds only for the booking's own rider while the
\* status is pending or accepted, and then the booking is cancelled with
\* cancelled_at, cancelled_by (the rider) and a reason recorded; for
\* another rider, or any other status, it fails and bookings is unchanged.
C12_CancelRules ==
    [][\A u \in UserIds, b \in 1..RiderBookings, rc \in HttpCodes :
          cancel_booking(u, b, rc) =>
             IF /\ b \in BookingIds
                /\ bookings[b].user_id = u
                /\ bookings[b].status \in {"pending", "accepted"}
             THEN /\ rc = 200
                  /\ bookings' = [bookings EXCEPT ![b] =
                         [@ EXCEPT !.status = "cancelled", !.cancelled_at = TRUE,
                                   !.cancelled_by = u,
                                   !.cancellation_reason = "Cancelled by user"]]
                  /\ bookings'[b].cancellation_reason # ""
             ELSE /\ rc # 200
                  /\ UNCHANGED bookings]_vars

\* A rider was refused the booking of another rider: every id a request
\* can name is a stored booking, it is still pending or accepted, and the
\* answer is 404.
C12_Witness ==
    /\ resp = Response("cancel", 404)
    /\ Len(bookings) = RiderBookings
    /\ \A b \in BookingIds : bookings[b].status \in {"pending", "accepted"}
    /\ next_user_id > StudentId + 1

\* C13: cancelled is terminal: once a booking's status is cancelled, no
\* later operation changes its status.
C13_CancelledTerminal ==
    [][\A b \in BookingIds :
          bookings[b].status = "cancelled" => bookings'[b].status = "cancelled"]_vars

\* C14: no booking ever has status no_show: no step writes it, and a
\* driver's request with target no_show is refused and changes no booking.
C14_NoShowNeverWritten ==
    [][/\ \A b \in DOMAIN bookings' : bookings'[b].status # "no_show"
       /\ \A d \in UserIds, b \in 1..RespBookings, rc \in HttpCodes :
             update_booking_status(d, b, "no_show", rc) =>
                rc # 200 /\ UNCHANGED bookings]_vars

\* A driver asked for no_show on a booking of their own and got 400.
C14_Witness ==
    /\ resp = Response("status", 400)
    /\ \E b \in BookingIds : bookings[b].driver_id # NULL

\* C15: whenever a booking is stored with a driver d and a vehicle v, at
\* that moment d has role driver and is active, v is available, and v's
\* driver_id is d.
C15_AssignedPairEligible ==
    [][Len(bookings') = Len(bookings) + 1 =>
          LET row == bookings'[Len(bookings')]
          IN  (row.driver_id # NULL \/ row.vehicle_id # NULL) =>
                 /\ row.driver_id \in DOMAIN users
                 /\ users[row.driver_id].role = "driver"
                 /\ users[row.driver_id].status = "active"
                 /\ row.vehicle_id \in DOMAIN vehicles
                 /\ vehicles[row.vehicle_id].status = "available"
                 /\ vehicles[row.vehicle_id].driver_id = row.driver_id]_vars

\* A booking was assigned while a vehicle of the fleet was out of service.
C15_Witness ==
    /\ \E b \in BookingIds : bookings[b].status = "accepted"
    /\ \E v \in DOMAIN vehicles : vehicles[v].status = "maintenance"

\* C16: a booking created while no pair is eligible is stored pending
\* with no driver and no vehicle, and a pending booking is pending or
\* cancelled after every step, still with no driver and no vehicle.
C16_PendingStaysUnassigned ==
    [][/\ (Len(bookings') = Len(bookings) + 1 /\ EligiblePairs = {}) =>
             LET row == bookings'[Len(bookings')]
             IN  /\ row.status = "pending"
                 /\ row.driver_id = NULL
                 /\ row.vehicle_id = NULL
       /\ \A b \in BookingIds :
             bookings[b].status = "pending" =>
                /\ bookings'[b].status \in {"pending", "cancelled"}
                /\ bookings'[b].driver_id = NULL
                /\ bookings'[b].vehicle_id = NULL]_vars

\* A booking is still pending after a later booking was created.
C16_Witness ==
    /\ Len(bookings) = MaxBookings
    /\ bookings[1].status = "pending"
    /\ bookings[1].driver_id = NULL

\* C17: when a pair is eligible, no listing ever returns a booking that is
\* pending with no driver: the booking is first listed already accepted,
\* with its driver and vehicle.
C17_NeverListedUnassigned ==
    EligiblePairs # {} =>
        \A row \in seen.rows :
            /\ row.status # "pending"
            /\ row.driver_id # NULL
            /\ row.vehicle_id # NULL

\* A listing was served between the INSERT and the assignment of a
\* booking for which a pair is eligible.
C17_Witness ==
    /\ EligiblePairs # {}
    /\ seen.during = "inserted"
    /\ txn.state = "dispatched"
    /\ txn.row.status = "accepted"

\* C18: create_booking stores a booking only if the from and the to
\* location both exist and are active; if either is missing, inactive or
\* temporary the call fails and stores no booking, notification or audit
\* row.
C18_LocationsChecked ==
    [][\A u \in UserIds, r \in RouteInputs, c \in CodeInputs, rc \in HttpCodes :
          create_booking(u, r[1], r[2], c, rc) =>
             \/ \A l \in {r[1], r[2]} :
                   l \in DOMAIN locations /\ locations[l].status = "active"
             \/ /\ rc # 200
                /\ UNCHANGED <<bookings, notifications, audit_log>>]_vars

\* A booking was refused after the stop it starts from was closed.
C18_Witness ==
    /\ resp = Response("create", 404)
    /\ locations[1].status = "inactive"
    /\ locations[2].status = "active"

\* C19: no two stored bookings have the same booking_code, also when the
\* generator returns a value it has returned before.
C19_CodesUnique ==
    \A b1 \in BookingIds, b2 \in BookingIds :
        bookings[b1].booking_code = bookings[b2].booking_code => b1 = b2

\* With two bookings stored, a creation whose code one of them has was
\* refused.
C19_Witness ==
    /\ resp = Response("create", 500)
    /\ Len(bookings) >= 2

\* C20: a creation whose generated code collides is retried with a fresh
\* code and stores the booking, or it answers a Conflict (409) and stores
\* nothing; it never ends in an unhandled error.
C20_CollisionRetried ==
    [][\A u \in UserIds, r \in RouteInputs, c \in CodeInputs, rc \in HttpCodes :
          (/\ create_booking(u, r[1], r[2], c, rc)
           /\ Cardinality(ActiveRows(r[1], r[2])) = 2
           /\ CodeTaken(c)) =>
             \/ rc = 200 /\ Len(bookings') = Len(bookings) + 1
             \/ rc = 409 /\ UNCHANGED bookings]_vars

\* The trips of a trips table that belong to booking b and its driver.
TripsOf(ts, b) ==
    {t \in DOMAIN ts :
        ts[t].booking_id = b /\ ts[t].driver_id = bookings[b].driver_id}

\* C21: the step that takes a booking from driver_arriving to ongoing
\* creates its one trip, with status ongoing and start_time set; the step
\* that takes it from ongoing to completed sets end_time and status
\* completed on that same trip.
C21_TripLifecycle ==
    [][\A b \in BookingIds :
          /\ (bookings[b].status = "driver_arriving" /\ bookings'[b].status = "ongoing") =>
                /\ TripsOf(trips, b) = {}
                /\ Cardinality(TripsOf(trips', b)) = 1
                /\ \A t \in TripsOf(trips', b) :
                      /\ trips'[t].status = "ongoing"
                      /\ trips'[t].start_time
                      /\ ~trips'[t].end_time
          /\ (bookings[b].status = "ongoing" /\ bookings'[b].status = "completed") =>
                /\ Cardinality(TripsOf(trips, b)) = 1
                /\ TripsOf(trips', b) = TripsOf(trips, b)
                /\ \A t \in TripsOf(trips, b) :
                      /\ trips[t].status = "ongoing"
                      /\ trips'[t].status = "completed"
                      /\ trips'[t].start_time
                      /\ trips'[t].end_time]_vars

\* A booking is completed and its trip is closed.
C21_Witness ==
    \E b \in BookingIds :
        /\ bookings[b].status = "completed"
        /\ \E t \in TripIds :
              /\ trips[t].booking_id = b
              /\ trips[t].status = "completed"
              /\ trips[t].end_time

\* C22: a trip is created only by a step that takes its booking into
\* ongoing, no booking ever has two trips, and a request for ongoing on a
\* booking that has a trip creates none.
C22_TripOnlyOnOngoing ==
    [][/\ Len(trips') > Len(trips) =>
             /\ Len(trips') = Len(trips) + 1
             /\ LET b == trips'[Len(trips')].booking_id
                IN  /\ b \in BookingIds
                    /\ bookings[b].status # "ongoing"
                    /\ bookings'[b].status = "ongoing"
       /\ \A t1 \in DOMAIN trips', t2 \in DOMAIN trips' :
             trips'[t1].booking_id = trips'[t2].booking_id => t1 = t2
       /\ \A d \in UserIds, b \in BookingIds, rc \in HttpCodes :
             (/\ update_booking_status(d, b, "ongoing", rc)
              /\ \E t \in TripIds : trips[t].booking_id = b) =>
                trips' = trips]_vars

\* A second request for ongoing was refused: the booking has its trip,
\* and the trips table holds that trip alone.
C22_Witness ==
    /\ resp = Response("status", 500)
    /\ Len(trips) = 1
    /\ trips[1].booking_id \in BookingIds

\* C23: a request for completed closes the one ongoing trip of (booking,
\* driver); when there is no such trip the request fails and the booking
\* does not become completed.
C23_CompleteNeedsOpenTrip ==
    [][\A d \in UserIds, b \in BookingIds, rc \in HttpCodes :
          (/\ update_booking_status(d, b, "completed", rc)
           /\ ~\E t \in TripIds :
                  /\ trips[t].booking_id = b
                  /\ trips[t].driver_id = d
                  /\ trips[t].status = "ongoing") =>
             /\ rc # 200
             /\ bookings'[b].status = bookings[b].status]_vars

\* C24: a location sample from a driver with no ongoing trip is refused:
\* no row is written to location_history and no broadcast is started.
C24_NoTripNoSample ==
    [][\A d \in UserIds, rc \in HttpCodes :
          (/\ submit_driver_location(d, rc)
           /\ ~\E t \in TripIds :
                  trips[t].driver_id = d /\ trips[t].status = "ongoing") =>
             /\ rc # 200
             /\ UNCHANGED <<location_history, pass>>]_vars

\* A driver with no ongoing trip was refused while another driver's trip
\* is ongoing.
C24_Witness ==
    /\ resp = Response("location", 400)
    /\ \E t \in TripIds : trips[t].status = "ongoing"

\* C25: every row appended to location_history names a trip of the driver
\* who submitted it, and that trip is ongoing when the row is appended.
C25_SampleOnOngoingTrip ==
    [][Len(location_history') > Len(location_history) =>
          LET row == location_history'[Len(location_history')]
          IN  /\ Len(location_history') = Len(location_history) + 1
              /\ resp' = Response("location", 200)
              /\ row.trip_id \in TripIds
              /\ trips[row.trip_id].driver_id = row.driver_id
              /\ trips[row.trip_id].status = "ongoing"]_vars

\* A sample is stored for a trip that has since been closed.
C25_Witness ==
    \E i \in DOMAIN location_history :
        trips[location_history[i].trip_id].status = "completed"

\* The connections a step delivers the broadcast message to.
Got ==
    IF pass' = pass THEN {}
    ELSE IF pass.state = "sending" THEN pass'.got \ pass.got
    ELSE pass'.got

\* The connections that were connected as driver d.
ConnectionsOf(d) ==
    {ws \in DOMAIN connect_args :
        connect_args[ws].role = "driver" /\ connect_args[ws].user_id = d}

C27_TargetedOnlyToDriver ==
    [][\A d \in {Driver1Id, Driver2Id} :
          send_to_driver(d) =>
             /\ Cardinality(notified'.to) <= 1
             /\ notified'.to \subseteq ConnectionsOf(d)
             /\ d \notin DOMAIN driver_connections => notified'.to = {}
             /\ UNCHANGED <<active_connections, driver_connections, pass,
                            notifications>>]_vars

\* A driver got a message while a connection that is not theirs is
\* subscribed too.
C27_Witness ==
    /\ notified.to # {}
    /\ \E ws \in Subscribed : ws \notin ConnectionsOf(notified.driver)

C29_DisconnectRemovesOne ==
    [][\A ws \in 1..MaxSockets :
          disconnect(ws) =>
             /\ ws \notin {active_connections'[i] : i \in DOMAIN active_connections'}
             /\ \A k \in DOMAIN driver_connections' : driver_connections'[k] # ws
             /\ active_connections' = SelectSeq(active_connections, LAMBDA c : c # ws)
             /\ DOMAIN driver_connections' \subseteq DOMAIN driver_connections
             /\ \A k \in DOMAIN driver_connections :
                   driver_connections[k] # ws =>
                      /\ k \in DOMAIN driver_connections'
                      /\ driver_connections'[k] = driver_connections[k]]_vars

\* Before any broadcast, a driver's connection is gone from the list and
\* the index while another driver's connection is still in both.
C29_Witness ==
    /\ pass.state = "idle"
    /\ \E ws \in DOMAIN connect_args :
          /\ connect_args[ws].role = "driver"
          /\ ws \notin Subscribed
          /\ \A k \in DOMAIN driver_connections : driver_connections[k] # ws
    /\ \E k \in DOMAIN driver_connections : driver_connections[k] \in Subscribed

\* C30: when a broadcast pass ends every connection of the pass has been
\* sent to, whichever sends raised; the connections whose send raised are
\* in neither the list nor the index, and the pass removes no other.
C30_FailedSendsDropped ==
    [][(pass.state = "sending" /\ pass'.state = "done") =>
          /\ pass.snapshot = pass.got \cup pass.failed
          /\ \A c \in pass.failed :
                /\ c \notin {active_connections'[i] : i \in DOMAIN active_connections'}
                /\ \A k \in DOMAIN driver_connections' : driver_connections'[k] # c
          /\ active_connections' =
                SelectSeq(active_connections, LAMBDA c : c \notin pass.failed)
          /\ \A k \in DOMAIN driver_connections :
                driver_connections[k] \notin pass.failed =>
                   /\ k \in DOMAIN driver_connections'
                   /\ driver_connections'[k] = driver_connections[k]]_vars

\* A pass has ended in which the send to the first connection raised and
\* the send to the second did not: the first is gone, the second is
\* still subscribed.
C30_Witness ==
    /\ pass.state = "done"
    /\ pass.failed = {1}
    /\ pass.got = {2}
    /\ 1 \notin Subscribed
    /\ 2 \in Subscribed

\* C33: every booking whose status is ongoing has a trip of the same
\* booking and driver whose status is ongoing.
C33_OngoingHasOpenTrip ==
    \A b \in BookingIds :
        bookings[b].status = "ongoing" =>
           \E t \in TripIds :
              /\ trips[t].booking_id = b
              /\ trips[t].driver_id = bookings[b].driver_id
              /\ trips[t].status = "ongoing"

\* A booking is ongoing while another booking of the same driver has been
\* completed and its trip closed.
C33_Witness ==
    \E b1 \in BookingIds, b2 \in BookingIds :
        /\ bookings[b1].status = "ongoing"
        /\ bookings[b2].status = "completed"
        /\ bookings[b1].driver_id = bookings[b2].driver_id
        /\ \E t \in TripIds :
              trips[t].booking_id = b2 /\ trips[t].status = "completed"

\* C34: every trip whose status is ongoing belongs to a booking whose
\* status is ongoing.
C34_OpenTripHasOngoingBooking ==
    \A t \in TripIds :
        trips[t].status = "ongoing" =>
           bookings[trips[t].booking_id].status = "ongoing"

\* C36: where every websocket is connected at most once, every websocket
\* in the driver index is in the list of connections too.
C36_IndexedAreSubscribed ==
    \A k \in DOMAIN driver_connections : driver_connections[k] \in Subscribed

\* A driver is still indexed after a pass has dropped a connection whose
\* send raised.
C36_Witness ==
    /\ pass.state = "done"
    /\ pass.failed # {}
    /\ DOMAIN driver_connections # {}

\* C37: a booking's driver_id and vehicle_id, once set, are the same after
\* every step, and no step changes a vehicles row.
C37_AssignmentFrozen ==
    [][/\ \A b \in BookingIds :
             /\ bookings[b].driver_id # NULL =>
                   bookings'[b].driver_id = bookings[b].driver_id
             /\ bookings[b].vehicle_id # NULL =>
                   bookings'[b].vehicle_id = bookings[b].vehicle_id
       /\ vehicles' = vehicles]_vars

\* A cancelled booking still has its driver and its vehicle, and the
\* vehicle is as it was seeded.
C37_Witness ==
    \E b \in BookingIds :
        /\ bookings[b].status = "cancelled"
        /\ bookings[b].driver_id # NULL
        /\ bookings[b].vehicle_id # NULL
        /\ vehicles[bookings[b].vehicle_id] = SeedVehicles[bookings[b].vehicle_id]

\* C39: create_booking with the same stop as origin and destination
\* fails and stores no booking, also when the stop is active.
C39_SameStopRefused ==
    [][\A u \in UserIds, l \in DOMAIN locations, c \in CodeInputs, rc \in HttpCodes :
          create_booking(u, l, l, c, rc) =>
             /\ rc = 404
             /\ bookings' = bookings
             /\ audit_log' = audit_log]_vars

\* With every stop active, a create_booking was answered 404 and no
\* booking is stored: the request named one stop twice.
C39_Witness ==
    /\ resp = Response("create", 404)
    /\ \A l \in DOMAIN locations : locations[l].status = "active"
    /\ bookings = <<>>

\* The stops some booking starts or ends at.
BookedStops ==
    {bookings[b].from_location_id : b \in BookingIds} \cup
    {bookings[b].to_location_id : b \in BookingIds}

\* C32: no step changes the name or the coordinate of a stop that a
\* booking references, and no step removes a locations row.
C32_BookedStopImmutable ==
    [][/\ DOMAIN locations \subseteq DOMAIN locations'
       /\ \A l \in BookedStops :
             /\ locations'[l].name = locations[l].name
             /\ locations'[l].latitude = locations[l].latitude]_vars

C31_PushFailureHarmless ==
    [][/\ (txn.state = "inserted" /\ txn' # txn) => txn'.state = "dispatched"
       /\ (txn.state = "dispatched" /\ txn' # txn) =>
             /\ txn' = NoTxn
             /\ Len(bookings') = txn.id
             /\ bookings'[txn.id] = txn.row
             /\ resp' = Response("create", 200)
       /\ \A d \in UserIds, rc \in HttpCodes :
             (submit_driver_location(d, rc) /\ OpenTripsOf(d) # {}) =>
                /\ rc = 200
                /\ location_history' =
                      Append(location_history,
                             [trip_id |-> LatestTrip(d), driver_id |-> d])
       /\ broadcast_resume => UNCHANGED <<location_history, resp>>]_vars

\* The send of new_booking to the booking's driver raised and the booking
\* is committed with that driver; a sample is stored and answered 200
\* though a send of its broadcast raised.
C31_Witness ==
    /\ notified.raised
    /\ \E b \in BookingIds : bookings[b].driver_id = notified.driver
    /\ Len(location_history) > 0
    /\ pass.state = "done"
    /\ pass.failed # {}
    /\ resp = Response("location", 200)

====
